---- MODULE Spec2Model ----
(***************************************************************************)
(* Turing machine emulator (src/main.cpp): the table loader fill_states,   *)
(* the tape (a doubly linked chain of bi_list cells), the tape loader      *)
(* init_tape_by_input, the run loop run_simulation with its debug command  *)
(* reader, and main's sequencing and exit status.                          *)
(*                                                                         *)
(* The tape is a function from a contiguous integer interval to symbols:   *)
(* a position stands for one bi_list cell, position p-1 / p+1 for the cell *)
(* reached through ->left / ->right, and a position outside the domain for *)
(* a null link.  curr is the position of the cell TM::curr points at.      *)
(***************************************************************************)
EXTENDS Integers, Sequences, FiniteSets, TLC

(* ---------------------------- bounds ---------------------------------- *)
\* longest table source (number of records) under Spec
MaxRules == 2
\* longest input stream under Spec
MaxInput == 1
\* longest input stream under TapeSpec
MaxTapeInput == 3
\* most rules applied in one run
MaxSteps == 3
\* most rejected debug inputs in one run
MaxBadInput == 1

(* ---------------------------- alphabets ------------------------------- *)
\* the bytes a char variable is taken to hold
Char == {"0", "1", "_", "*", "\n"}

\* first byte of a name, as strcmp sees it
FirstByte(s) ==
  CASE s = "*" -> 42
    [] s = "0" -> 48
    [] s = "1" -> 49
    [] s = "halt" -> 104
    [] OTHER -> 0

strcmp(a, b) == FirstByte(a) - FirstByte(b)

\* class state: one record of the table (name, in_symbol, out_symbol, move, next_state)
Rule(n, i, o, m, x) ==
  [name |-> n, in_symbol |-> i, out_symbol |-> o, move |-> m, next_state |-> x]

\* the records a table source is drawn from
Rules ==
  [name : {"0"}, in_symbol : {"1", "*"}, out_symbol : {"_"},
   move : {"r"}, next_state : {"1"}]
  \cup
  [name : {"0"}, in_symbol : {"1", "*"}, out_symbol : {"*"},
   move : {"l"}, next_state : {"*"}]
  \cup
  [name : {"0"}, in_symbol : {"*"}, out_symbol : {"1"},
   move : {"*"}, next_state : {"*", "halt"}]
  \cup
  [name : {"1"}, in_symbol : {"*"}, out_symbol : {"1"},
   move : {"r"}, next_state : {"*", "halt"}]
  \cup
  {Rule("halt", "*", "1", "r", "0"), Rule("0", "1", "1", "x", "halt")}

\* the records a table source is drawn from under TapeSpec
TapeRules ==
  {Rule("0", "*", "*", "r", "halt"), Rule("0", "1", "_", "l", "*"),
   Rule("0", "_", "1", "x", "0")}

SeqsUpTo(S, n) == UNION {[1..k -> S] : k \in 0..n}

(* ---------------------------- state ----------------------------------- *)
VARIABLES
  source,      \* the table file: the records fscanf will read
  input,       \* the input file: its characters
  mode,        \* argv[3]: "d" or "r"
  pc,          \* where main / run_simulation stands
  states,      \* TM::states
  tape,        \* the chain of cells: position -> value
  curr,        \* TM::curr
  curr_state,  \* run_simulation's curr_state (name, in_symbol)
  iter,        \* run_simulation's iter: the rule last found
  command,     \* run_simulation's command
  out,         \* what has been printed, in order
  ret,         \* run_simulation's return value, converted to bool
  exit_code,   \* the status the process ended with
  nsteps,      \* rules applied so far
  nbad         \* debug inputs rejected so far

vars == <<source, input, mode, pc, states, tape, curr, curr_state, iter,
          command, out, ret, exit_code, nsteps, nbad>>

(* ---------------------------- bi_list --------------------------------- *)
\* set_value without the wildcard test
set_value_always(old, v) == v

\* bi_list::set_value on a cell holding old
set_value(old, v) == IF v = "*" THEN old ELSE v

\* a fresh bi_list (value = '_')
NewCell == "_"

HasLeft(t, c) == (c - 1) \in DOMAIN t
HasRight(t, c) == (c + 1) \in DOMAIN t

\* the chain with the cell at c set through set_value
WriteCell(t, c, v) == [t EXCEPT ![c] = set_value(t[c], v)]

\* a fresh cell linked without its value initialised to '_'
Link_garbage(t, p) == [q \in (DOMAIN t) \cup {p} |-> IF q = p THEN "0" ELSE t[q]]

\* the chain with a fresh cell linked at position p (left or right end)
Link(t, p) == [q \in (DOMAIN t) \cup {p} |-> IF q = p THEN NewCell ELSE t[q]]

(* ---------------------------- TM::move_carriage ----------------------- *)
\* does move_carriage(direction) call new?
NeedsCell(t, c, direction) ==
  \/ direction = "r" /\ ~HasRight(t, c)
  \/ direction = "l" /\ ~HasLeft(t, c)

\* move_carriage with a plain else for the left branch
move_carriage_else_left(t, c, direction) ==
  IF direction = "r"
  THEN [tape |-> IF HasRight(t, c) THEN t ELSE Link(t, c + 1), curr |-> c + 1]
  ELSE [tape |-> IF HasLeft(t, c) THEN t ELSE Link(t, c - 1), curr |-> c - 1]

\* move_carriage when every new succeeds: the chain and curr afterwards
move_carriage(t, c, direction) ==
  IF direction = "r"
  THEN [tape |-> IF HasRight(t, c) THEN t ELSE Link(t, c + 1), curr |-> c + 1]
  ELSE IF direction = "l"
       THEN [tape |-> IF HasLeft(t, c) THEN t ELSE Link(t, c - 1), curr |-> c - 1]
       ELSE [tape |-> t, curr |-> c]

\* TM::move_carriage_to_beginning
RECURSIVE move_carriage_to_beginning(_, _)
move_carriage_to_beginning(t, c) ==
  IF HasLeft(t, c) THEN move_carriage_to_beginning(t, c - 1) ELSE c

(* ---------------------------- TM::print_answer ------------------------ *)
RECURSIVE Walk(_, _)
\* the second loop of print_answer, from cell p rightwards
Walk(t, p) ==
  IF p \notin DOMAIN t THEN <<>>
  ELSE (IF t[p] # "_" THEN <<t[p]>> ELSE <<>>) \o Walk(t, p + 1)

\* print_answer walking from the cell under the head, without the first loop
print_answer_from_head(t, c) == Walk(t, c)

\* the characters print_answer prints before the newline
print_answer(t, c) == Walk(t, move_carriage_to_beginning(t, c))

Event(k, txt) == [kind |-> k, text |-> txt]


(* ---------------------------- TM::fill_states ------------------------- *)
\* comparator on the state names alone
comparator_names(st_1, st_2) == strcmp(st_1.name, st_2.name) < 0

\* comparator with the wildcard test on the wrong argument
comparator_first(st_1, st_2) ==
  \/ strcmp(st_1.name, st_2.name) < 0
  \/ strcmp(st_1.name, st_2.name) = 0 /\ st_1.in_symbol = "*"

\* the lambda handed to std::sort
comparator(st_1, st_2) ==
  \/ strcmp(st_1.name, st_2.name) < 0
  \/ strcmp(st_1.name, st_2.name) = 0 /\ st_2.in_symbol = "*"

\* the rearrangements of a vector
Perms(v) ==
  {[i \in 1..Len(v) |-> v[p[i]]] :
     p \in {q \in [1..Len(v) -> 1..Len(v)] : \A i, j \in 1..Len(v) : q[i] = q[j] => i = j}}

\* std::sort (v.begin (), v.end (), comparator): a rearrangement of v in which no
\* element stands before one that the comparator puts strictly before it.  The
\* order among elements the comparator does not separate (neither before the
\* other, or each before the other) is left open: std::sort is not stable, and
\* the comparator answers true both ways for two wildcard rules of one state.
std_sort(v) ==
  {s \in Perms(v) :
     \A i, j \in 1..Len(s) :
        i < j => ~(comparator(s[j], s[i]) /\ ~comparator(s[i], s[j]))}

\* the move test of line 113 letting every character pass
ValidMove_any(m) == TRUE

ValidMove(m) == m = "r" \/ m = "l" \/ m = "*"

\* the index of the first record the while loop of fill_states rejects (0: none)
FirstInvalid(src) ==
  LET bad == {i \in 1..Len(src) : ~ValidMove(src[i].move)}
  IN IF bad = {} THEN 0 ELSE CHOOSE i \in bad : \A j \in bad : i <= j

\* main, line 300: fill_states; on false main returns -1
FillStates ==
  /\ pc = "fill"
  /\ IF FirstInvalid(source) # 0
     THEN /\ states' = SubSeq(source, 1, FirstInvalid(source) - 1)
          /\ out' = Append(out, Event("error_move", <<>>))
          /\ exit_code' = "-1"
          /\ pc' = "done"
     ELSE /\ states' \in std_sort(source)
          /\ out' = out
          /\ exit_code' = exit_code
          /\ pc' = "init"
  /\ UNCHANGED <<source, input, mode, tape, curr, curr_state, iter, command,
                 ret, nsteps, nbad>>

(* ---------------------------- TM::init_tape_by_input ------------------ *)
NotNewline(c) == c # "\n"

\* the cells of init_tape_by_input with value assigned directly
InitCells_raw(in0, rest) == <<in0>> \o SelectSeq(rest, NotNewline)

\* the values of the cells init_tape_by_input chains, left to right: in0 is what
\* the variable in holds after the first fscanf, rest what the loop reads
InitCells(in0, rest) ==
  LET kept == SelectSeq(rest, NotNewline)
  IN <<set_value(NewCell, in0)>> \o
     [k \in 1..Len(kept) |-> set_value(NewCell, kept[k])]

\* what in can hold after the first fscanf: the first character, or, when the
\* stream is empty, whatever the uninitialised variable holds
FirstRead(inp) == IF inp = <<>> THEN Char ELSE {inp[1]}

\* main, line 303: init_tape_by_input with every new succeeding
InitTape ==
  /\ pc = "init"
  /\ \E in0 \in FirstRead(input) :
       LET cells == InitCells(in0, IF input = <<>> THEN <<>> ELSE Tail(input))
           chain == [p \in 0..(Len(cells) - 1) |-> cells[p + 1]]
       IN /\ tape' = chain
          /\ curr' = move_carriage_to_beginning(chain, Len(cells) - 1)
  /\ pc' = "run"
  /\ UNCHANGED <<source, input, mode, states, curr_state, iter, command, out,
                 ret, exit_code, nsteps, nbad>>

\* a new in init_tape_by_input throws std::bad_alloc: nothing catches it
InitTapeBadAlloc ==
  /\ pc = "init"
  /\ pc' = "aborted"
  /\ exit_code' = "abort"
  /\ UNCHANGED <<source, input, mode, states, tape, curr, curr_state, iter,
                 command, out, ret, nsteps, nbad>>

(* ---------------------------- TM::run_simulation ---------------------- *)
\* state (name_arg, in_symbol_arg)
state(name_arg, in_symbol_arg) == [name |-> name_arg, in_symbol |-> in_symbol_arg]

\* the predicate of find_if without the comparison of the state names
Matches_any_state(cs, st) == cs.in_symbol = st.in_symbol \/ st.in_symbol = "*"

\* the predicate of find_if
Matches(cs, st) ==
  /\ strcmp(cs.name, st.name) = 0
  /\ (cs.in_symbol = st.in_symbol \/ st.in_symbol = "*")

\* std::find_if: the index of the first match, Len + 1 for end ()
find_if(v, cs) ==
  LET hits == {i \in 1..Len(v) : Matches(cs, v[i])}
  IN IF hits = {} THEN Len(v) + 1 ELSE CHOOSE i \in hits : \A j \in hits : i <= j

\* the characters state::print prints
RuleText(st) == <<st.name, st.in_symbol, st.out_symbol, st.move, st.next_state>>

\* lines 237-246, and line 248 in release mode
RunStart ==
  /\ pc = "run"
  /\ command' = "non_debug"
  /\ IF mode = "d"
     THEN /\ out' = out \o <<Event("banner", <<>>), Event("answer", print_answer(tape, curr))>>
          /\ pc' = "scan0"
          /\ curr_state' = curr_state
     ELSE /\ out' = out
          /\ pc' = "loop"
          /\ curr_state' = state("0", tape[curr])
  /\ UNCHANGED <<source, input, mode, states, tape, curr, iter, ret, exit_code,
                 nsteps, nbad>>

\* what scanf can leave in command: a character typed, or, at end of input,
\* whatever the uninitialised variable holds
DebugInputs == {"n", "c", "\n", "x"}

\* scan_debug_command returning the default command instead of reading again
scan_debug_command_giveup(ch) ==
  IF ch = "n" THEN "next_step" ELSE IF ch = "c" THEN "until_end" ELSE "non_debug"

\* scan_debug_command, one read: the command it returns, or "again" when it
\* calls itself
scan_debug_command(ch) ==
  IF ch = "n" THEN "next_step" ELSE IF ch = "c" THEN "until_end" ELSE "again"

\* one read of scan_debug_command at line 245; on return, line 248
ScanFirst ==
  /\ pc = "scan0"
  /\ \E ch \in DebugInputs :
       IF scan_debug_command(ch) = "again"
       THEN /\ IF ch # "\n"
               THEN /\ nbad < MaxBadInput
                    /\ out' = Append(out, Event("prompt", <<>>))
                    /\ nbad' = nbad + 1
               ELSE UNCHANGED <<out, nbad>>
            /\ UNCHANGED <<pc, command, curr_state>>
       ELSE /\ command' = scan_debug_command(ch)
            /\ curr_state' = state("0", tape[curr])
            /\ pc' = "loop"
            /\ UNCHANGED <<out, nbad>>
  /\ UNCHANGED <<source, input, mode, states, tape, curr, iter, ret, exit_code, nsteps>>

\* one read of scan_debug_command at line 273
ScanStep ==
  /\ pc = "scan"
  /\ \E ch \in DebugInputs :
       IF scan_debug_command(ch) = "again"
       THEN /\ IF ch # "\n"
               THEN /\ nbad < MaxBadInput
                    /\ out' = Append(out, Event("prompt", <<>>))
                    /\ nbad' = nbad + 1
               ELSE UNCHANGED <<out, nbad>>
            /\ UNCHANGED <<pc, command>>
       ELSE /\ command' = scan_debug_command(ch)
            /\ pc' = "loop"
            /\ UNCHANGED <<out, nbad>>
  /\ UNCHANGED <<source, input, mode, states, tape, curr, curr_state, iter, ret,
                 exit_code, nsteps>>

\* the loop test against another state name
Halted_stop == strcmp(curr_state.name, "stop") = 0

\* the loop test, leaving only when no rule is left for the halting state
Halted_unless_rule ==
  /\ strcmp(curr_state.name, "halt") = 0
  /\ \A i \in 1..Len(states) : states[i].name # "halt"

\* the loop test of line 249
Halted == strcmp(curr_state.name, "halt") = 0

\* the next state name without the wildcard test
NextName_always(cs, st) == st.next_state

\* the next state name of line 267
NextName(cs, st) == IF strcmp(st.next_state, "*") = 0 THEN cs.name ELSE st.next_state

\* the loop body printing after every step of a debug session
Step_render_always ==
  /\ pc = "loop"
  /\ strcmp(curr_state.name, "halt") # 0
  /\ nsteps < MaxSteps
  /\ find_if(states, curr_state) <= Len(states)
  /\ LET st == states[find_if(states, curr_state)]
         written == WriteCell(tape, curr, st.out_symbol)
         moved == move_carriage(written, curr, st.move)
     IN /\ iter' = st
        /\ tape' = moved.tape
        /\ curr' = moved.curr
        /\ curr_state' = state(NextName(curr_state, st), moved.tape[moved.curr])
        /\ IF command # "non_debug"
           THEN /\ out' = out \o <<Event("answer", print_answer(moved.tape, moved.curr)),
                                   Event("rule", RuleText(st))>>
                /\ pc' = "scan"
           ELSE /\ out' = out
                /\ pc' = "loop"
  /\ nsteps' = nsteps + 1
  /\ UNCHANGED <<source, input, mode, states, command, ret, exit_code, nbad>>

\* one pass of the loop body with a rule found and every new succeeding
Step ==
  /\ pc = "loop"
  /\ ~Halted
  /\ nsteps < MaxSteps
  /\ find_if(states, curr_state) <= Len(states)
  /\ LET st == states[find_if(states, curr_state)]
         written == WriteCell(tape, curr, st.out_symbol)
         moved == move_carriage(written, curr, st.move)
     IN /\ iter' = st
        /\ tape' = moved.tape
        /\ curr' = moved.curr
        /\ curr_state' = state(NextName(curr_state, st), moved.tape[moved.curr])
        /\ IF command = "next_step"
           THEN /\ out' = out \o <<Event("answer", print_answer(moved.tape, moved.curr)),
                                   Event("rule", RuleText(st))>>
                /\ pc' = "scan"
           ELSE /\ out' = out
                /\ pc' = "loop"
  /\ nsteps' = nsteps + 1
  /\ UNCHANGED <<source, input, mode, states, command, ret, exit_code, nbad>>

\* one pass of the loop body in which the new of move_carriage throws
\* std::bad_alloc, after set_value: nothing catches it
StepBadAlloc ==
  /\ pc = "loop"
  /\ ~Halted
  /\ nsteps < MaxSteps
  /\ find_if(states, curr_state) <= Len(states)
  /\ LET st == states[find_if(states, curr_state)]
     IN /\ NeedsCell(tape, curr, st.move)
        /\ iter' = st
        /\ tape' = WriteCell(tape, curr, st.out_symbol)
  /\ pc' = "aborted"
  /\ exit_code' = "abort"
  /\ UNCHANGED <<source, input, mode, states, curr, curr_state, command, out, ret,
                 nsteps, nbad>>

\* lines 254-258: find_if returned end ()
NoRule ==
  /\ pc = "loop"
  /\ ~Halted
  /\ find_if(states, curr_state) = Len(states) + 1
  /\ out' = Append(out, Event("error_no_state", <<curr_state.name, curr_state.in_symbol>>))
  /\ ret' = "true"
  /\ pc' = "returned"
  /\ UNCHANGED <<source, input, mode, states, tape, curr, curr_state, iter, command,
                 exit_code, nsteps, nbad>>

\* the loop exit with print_answer walking with curr itself, as clean does
LoopExit_rewind ==
  /\ pc = "loop"
  /\ strcmp(curr_state.name, "halt") = 0
  /\ out' = Append(out, Event("answer", print_answer(tape, curr)))
  /\ curr' = move_carriage_to_beginning(tape, curr)
  /\ ret' = "false"
  /\ pc' = "returned"
  /\ UNCHANGED <<source, input, mode, states, tape, curr_state, iter, command,
                 exit_code, nsteps, nbad>>

\* the loop exit without the call of print_answer
LoopExit_silent ==
  /\ pc = "loop"
  /\ strcmp(curr_state.name, "halt") = 0
  /\ ret' = "false"
  /\ pc' = "returned"
  /\ UNCHANGED <<source, input, mode, states, tape, curr, curr_state, iter, command,
                 out, exit_code, nsteps, nbad>>

\* lines 277-278: the loop test fails
LoopExit ==
  /\ pc = "loop"
  /\ Halted
  /\ out' = Append(out, Event("answer", print_answer(tape, curr)))
  /\ ret' = "false"
  /\ pc' = "returned"
  /\ UNCHANGED <<source, input, mode, states, tape, curr, curr_state, iter, command,
                 exit_code, nsteps, nbad>>

(* ---------------------------- main ------------------------------------ *)
\* TM::clean: every cell is deleted
clean(t) == [p \in {} |-> NewCell]

\* main, lines 306-312: the value of run_simulation is dropped
MainReturn ==
  /\ pc = "returned"
  /\ tape' = clean(tape)
  /\ exit_code' = "0"
  /\ pc' = "done"
  /\ UNCHANGED <<source, input, mode, states, curr, curr_state, iter, command, out,
                 ret, nsteps, nbad>>

(* ---------------------------- specifications -------------------------- *)
\* main after the argument check and both fopen succeeded
InitWith(tables, inputs) ==
  /\ source \in tables
  /\ input \in inputs
  /\ mode \in {"d", "r"}
  /\ pc = "fill"
  /\ states = <<>>
  /\ tape = clean(<<>>)
  /\ curr = 0
  /\ curr_state = state("", "_")
  /\ iter = Rule("", "_", "_", "*", "")
  /\ command = "non_debug"
  /\ out = <<>>
  /\ ret = "unset"
  /\ exit_code = "running"
  /\ nsteps = 0
  /\ nbad = 0

Init == InitWith(SeqsUpTo(Rules, MaxRules), SeqsUpTo({"1"}, MaxInput))

TapeInit == InitWith(SeqsUpTo(TapeRules, 1), SeqsUpTo({"1", "*", "\n"}, MaxTapeInput))

Next ==
  \/ FillStates
  \/ InitTape
  \/ InitTapeBadAlloc
  \/ RunStart
  \/ ScanFirst
  \/ ScanStep
  \/ Step
  \/ StepBadAlloc
  \/ NoRule
  \/ LoopExit
  \/ MainReturn

Spec == Init /\ [][Next]_vars

TapeSpec == TapeInit /\ [][Next]_vars

\* the steps the program takes by itself: everything but the blocking reads of
\* scan_debug_command
Program ==
  \/ FillStates
  \/ InitTape
  \/ InitTapeBadAlloc
  \/ RunStart
  \/ Step
  \/ StepBadAlloc
  \/ NoRule
  \/ LoopExit
  \/ MainReturn

\* a single thread that is not blocked on input keeps running
LiveSpec == Init /\ [][Next]_vars /\ WF_vars(Program)


(* ---------------------------- properties ------------------------------ *)
\* the table is loaded: fill_states returned true
Loaded == pc # "fill" /\ \A i \in 1..Len(source) : source[i].move \in {"l", "r", "*"}

\* run_simulation is between its loop test and its return
InRun == pc \in {"loop", "scan"}

\* a rule of state n for symbol c / for the wildcard is in the table
HasConcrete(n, c) == \E i \in 1..Len(states) : states[i].name = n /\ states[i].in_symbol = c
HasWildcard(n) == \E i \in 1..Len(states) : states[i].name = n /\ states[i].in_symbol = "*"

\* C1: in a loaded table, for every state name and every symbol for which the
\* table holds both a rule with that in_symbol and a wildcard rule of the same
\* state, the first match of the lookup is a rule with the concrete in_symbol,
\* whatever the order of the records in the source.
C1_RulePrecedence ==
  Loaded =>
    \A n \in {"0", "1", "halt"}, c \in Char \ {"*"} :
      HasConcrete(n, c) /\ HasWildcard(n) =>
        LET k == find_if(states, state(n, c))
        IN k <= Len(states) /\ states[k].name = n /\ states[k].in_symbol = c

\* C1 witness: the source lists the wildcard rule of a state before its concrete
\* rule, and the run has applied the concrete one
C1_Witness ==
  /\ Len(source) = 2
  /\ source[1].name = source[2].name
  /\ source[1].in_symbol = "*"
  /\ source[2].in_symbol = "1"
  /\ nsteps = 1
  /\ iter = source[2]

\* C2: the run returns as Halted exactly from a loop test that finds the state
\* name "halt"; from the moment the state name is "halt" the run applies no
\* rule and changes neither tape, head nor state, and the step it takes at the
\* loop test is the exit with the final rendering.
C2_HaltOnlyAndFinal ==
  [][ /\ (ret' = "false" /\ ret # "false") =>
           (pc = "loop" /\ curr_state.name = "halt")
      /\ (InRun /\ curr_state.name = "halt") =>
           /\ nsteps' = nsteps
           /\ tape' = tape
           /\ curr' = curr
           /\ curr_state' = curr_state
           /\ iter' = iter
      /\ (pc = "loop" /\ curr_state.name = "halt") =>
           /\ pc' = "returned"
           /\ ret' = "false"
           /\ out' = Append(out, Event("answer", print_answer(tape, curr)))
    ]_vars

\* C2 witness: a run has halted after applying rules while the table holds a
\* rule whose state name is "halt"
C2_Witness ==
  /\ pc = "returned"
  /\ ret = "false"
  /\ nsteps >= 1
  /\ \E i \in 1..Len(states) : states[i].name = "halt"

\* C3: once the state name has become "halt", after n applied rules, no further
\* rule is applied for the rest of the execution, and the run ends as Halted
\* with the final rendering as its last output, provided the operator of a
\* debug session does not leave it blocked on a debug command for ever.
C3_HaltTerminates ==
  /\ [][curr_state.name = "halt" =>
          (nsteps' = nsteps /\ curr_state'.name = "halt")]_vars
  /\ ([]<>(pc # "scan") =>
        ((curr_state.name = "halt")
           ~> (pc = "done" /\ ret = "false" /\ out[Len(out)].kind = "answer")))

\* C3 witness: a run has ended as Halted after two rules, the most a table of
\* the bound's size can apply before halting
C3_Witness ==
  /\ pc = "done"
  /\ ret = "false"
  /\ nsteps = 2
  /\ out[Len(out)].kind = "answer"

\* no rule of the table matches the current state name and symbol
NoMatchingRule ==
  \A i \in 1..Len(states) :
    ~(/\ states[i].name = curr_state.name
      /\ (states[i].in_symbol = curr_state.in_symbol \/ states[i].in_symbol = "*"))

C5_ErrorsExitNonZero ==
  (/\ pc \in {"done", "aborted"}
   /\ (ret = "true" \/ pc = "aborted" \/ ~Loaded)) =>
     /\ exit_code # "0"
     /\ pc = "done" => out[Len(out)].kind \in {"error_move", "error_no_state"}

\* a pass of the loop body has written its cell: the rule was applied, or the
\* move after the write ran out of memory
Wrote == pc = "loop" /\ (nsteps' = nsteps + 1 \/ pc' = "aborted")

\* a rule has been applied in full
Applied == pc = "loop" /\ nsteps' = nsteps + 1

\* C6: applying a rule leaves the cell under the head as it was when the rule's
\* out_symbol is '*' and sets it to out_symbol otherwise, and leaves every other
\* cell as it was.
C6_WildcardWrite ==
  [][ Wrote =>
        /\ tape'[curr] = IF iter'.out_symbol = "*" THEN tape[curr] ELSE iter'.out_symbol
        /\ \A p \in DOMAIN tape \ {curr} : tape'[p] = tape[p]
    ]_vars

\* C6 witness: a rule with out_symbol '*' was applied on a cell holding '1' and
\* moved left; the cell still holds '1'
C6_Witness ==
  /\ nsteps = 1
  /\ iter.out_symbol = "*"
  /\ iter.move = "l"
  /\ input = <<"1">>
  /\ tape[curr + 1] = "1"

\* C7: applying a rule leaves the state name as it was when the rule's
\* next_state is "*" and makes it the rule's next_state otherwise.
C7_WildcardState ==
  [][ Applied =>
        curr_state'.name =
          IF iter'.next_state = "*" THEN curr_state.name ELSE iter'.next_state
    ]_vars

\* C7 witness: a rule with next_state "*" was applied in state "1", which the
\* run had entered by an earlier rule, and the state is still "1"
C7_Witness ==
  /\ nsteps >= 2
  /\ iter.name = "1"
  /\ iter.next_state = "*"
  /\ curr_state.name = "1"

\* C8: applying a rule whose move is '*' leaves the head where it was and
\* materializes no cell; the symbol read for the next step is that of the cell
\* just written, and no other cell changes.
C8_StayMove ==
  [][ (Applied /\ iter'.move = "*") =>
        /\ curr' = curr
        /\ DOMAIN tape' = DOMAIN tape
        /\ curr_state'.in_symbol = tape'[curr]
        /\ \A p \in DOMAIN tape \ {curr} : tape'[p] = tape[p]
    ]_vars

\* C8 witness: a stay rule that keeps the state was applied, wrote '1', and the
\* run is back at the loop test over the same cell with '1' as current symbol
C8_Witness ==
  /\ pc = "loop"
  /\ nsteps >= 1
  /\ iter.move = "*"
  /\ iter.next_state = "*"
  /\ curr = 0
  /\ curr_state.in_symbol = "1"

\* C9: during a run the head is on a materialized cell and the cells form one
\* chain without gaps; a move that completes puts the head on the right
\* neighbour for 'r', the left neighbour for 'l' and the same cell for '*',
\* materializes at most that cell, which then holds '_', and leaves every cell
\* not under the head at the write as it was.
C9_MovesKeepTape ==
  /\ [](InRun =>
          /\ curr \in DOMAIN tape
          /\ \A p, q \in DOMAIN tape : \A m \in p..q : m \in DOMAIN tape)
  /\ [][ Applied =>
           /\ curr' \in DOMAIN tape'
           /\ curr' = (CASE iter'.move = "r" -> curr + 1
                         [] iter'.move = "l" -> curr - 1
                         [] OTHER -> curr)
           /\ DOMAIN tape \subseteq DOMAIN tape'
           /\ DOMAIN tape' \subseteq (DOMAIN tape \cup {curr'})
           /\ \A p \in DOMAIN tape' \ DOMAIN tape : tape'[p] = "_"
           /\ \A p \in DOMAIN tape \ {curr} : tape'[p] = tape[p]
       ]_vars

\* C9 witness: two moves to the left of the first cell have materialized two
\* blank cells, the first cell keeping its '1'
C9_Witness ==
  /\ curr = -2
  /\ tape[-2] = "_"
  /\ tape[-1] = "_"
  /\ tape[0] = "1"

\* C10: after init the cells hold, left to right, the characters of the input
\* without its line terminators, wherever they stand, and the head is on the
\* leftmost cell.  Stated for the streams that keep at least one character and
\* hold no '*' (the empty tape and the stored form of '*' are cases of their
\* own).
C10_InitHoldsInput ==
  LET kept == SelectSeq(input, NotNewline)
  IN (pc = "run" /\ kept # <<>> /\ \A k \in 1..Len(input) : input[k] # "*") =>
       /\ DOMAIN tape = 0..(Len(kept) - 1)
       /\ \A p \in DOMAIN tape : tape[p] = kept[p + 1]
       /\ curr = 0

\* the values of the materialized cells, leftmost first
CellsOf(t) ==
  IF DOMAIN t = {} THEN <<>>
  ELSE LET lo == CHOOSE p \in DOMAIN t : (p - 1) \notin DOMAIN t
       IN [k \in 1..Cardinality(DOMAIN t) |-> t[lo + k - 1]]

NotBlank(c) == c # "_"

IsAnswer(ev) == ev.kind = "answer"

\* the renderings printed so far
Answers == SelectSeq(out, IsAnswer)

\* C11: every rendering the program prints is the sequence of the symbols of
\* all materialized cells at that moment, leftmost to rightmost, with the
\* blank cells left out, wherever the head stands.
C11_RenderAllNonBlank ==
  [][ \A k \in (Len(out) + 1)..Len(out') :
        out'[k].kind = "answer" => out'[k].text = SelectSeq(CellsOf(tape'), NotBlank)
    ]_vars

\* C11 witness: the final rendering of a tape with a blank between two '1',
\* printed with the head on the blank, is "11"
C11_Witness ==
  /\ pc = "returned"
  /\ ret = "false"
  /\ curr = 1
  /\ CellsOf(tape) = <<"1", "_", "1">>
  /\ out[Len(out)] = Event("answer", <<"1", "1">>)

\* C12: a table source holding a record whose move is none of 'l', 'r', '*' is
\* rejected: the program ends at once with the error as its only output, the
\* table holding just the records before the first such record, no tape
\* created and no rule applied; and the table of every run has only such moves.
C12_InvalidMoveStopsAll ==
  /\ (pc # "fill" /\ \E i \in 1..Len(source) : source[i].move \notin {"l", "r", "*"}) =>
       /\ pc = "done"
       /\ exit_code = "-1"
       /\ out = <<Event("error_move", <<>>)>>
       /\ DOMAIN tape = {}
       /\ nsteps = 0
       /\ Len(states) < Len(source)
       /\ states = SubSeq(source, 1, Len(states))
       /\ source[Len(states) + 1].move \notin {"l", "r", "*"}
       /\ \A i \in 1..Len(states) : states[i].move \in {"l", "r", "*"}
  /\ (pc \in {"init", "run", "scan0", "loop", "scan", "returned"}) =>
       \A i \in 1..Len(states) : states[i].move \in {"l", "r", "*"}

\* C12 witness: the second record of the source has move 'x'; loading stopped
\* there with the first record alone in the table
C12_Witness ==
  /\ pc = "done"
  /\ Len(source) = 2
  /\ source[1].move = "r"
  /\ source[2].move = "x"
  /\ states = <<source[1]>>
  /\ exit_code = "-1"

\* C13: in release mode the output holds no rendering until the run has
\* returned as Halted, and from then on exactly one, which is its last line and
\* renders the tape as the last step left it; a release run that fails or has
\* not halted has printed none.
C13_ReleaseOneRendering ==
  (mode = "r") =>
    IF pc \in {"returned", "done"} /\ ret = "false"
    THEN /\ Len(Answers) = 1
         /\ out[Len(out)].kind = "answer"
         /\ pc = "returned" => out[Len(out)].text = SelectSeq(CellsOf(tape), NotBlank)
    ELSE Len(Answers) = 0

\* C13 witness: a release run has ended as Halted after two rules with a single
\* rendering printed
C13_Witness ==
  /\ mode = "r"
  /\ pc = "done"
  /\ ret = "false"
  /\ nsteps = 2
  /\ Len(Answers) = 1

\* C14: from an empty input stream init makes a tape of exactly one cell,
\* holding the blank, with the head on it.
C14_EmptyInputBlankCell ==
  (input = <<>> /\ pc \in {"run", "scan0", "loop"} /\ nsteps = 0) =>
    /\ CellsOf(tape) = <<"_">>
    /\ curr \in DOMAIN tape

\* a step that only renders: output grows by a rendering and no rule is applied
RendersOnly ==
  /\ nsteps' = nsteps
  /\ Len(out') > Len(out)
  /\ out'[Len(out')].kind = "answer"

\* C15: a rendering that is not part of a rule's pass changes no cell, not the
\* head and, inside the loop, not the current state; and the final rendering
\* of a single-stepped run, printed with no write or move since the rendering
\* after the last step, is identical to that one.
C15_RenderIdempotent ==
  [][ RendersOnly =>
        /\ tape' = tape
        /\ curr' = curr
        /\ pc = "loop" => curr_state' = curr_state
        /\ (pc = "loop" /\ command = "next_step") =>
             out'[Len(out')].text = Answers[Len(Answers)].text
    ]_vars

\* C15 witness: a single-stepped run has halted; its two last renderings, the
\* one after the last step and the final one, are the same non-empty text
C15_Witness ==
  /\ pc = "returned"
  /\ ret = "false"
  /\ command = "next_step"
  /\ Len(Answers) >= 3
  /\ Answers[Len(Answers)].text = Answers[Len(Answers) - 1].text
  /\ Answers[Len(Answers)].text # <<>>

\* C16: a debug session renders the tape once and then waits: while it waits
\* for its first command no rule has been applied and the output holds that one
\* rendering; a read that does not return a command leaves tape, head, state,
\* command and step count as they were; the wait ends only with 'n' or 'c'; and
\* whenever a rule has been applied in debug mode a valid command is in force.
C16_DebugWaitsForCommand ==
  /\ [](pc = "scan0" =>
          /\ mode = "d"
          /\ nsteps = 0
          /\ Len(Answers) = 1
          /\ out[2] = Event("answer", SelectSeq(CellsOf(tape), NotBlank)))
  /\ []((mode = "d" /\ nsteps >= 1) => command \in {"next_step", "until_end"})
  /\ [][ /\ (pc \in {"scan0", "scan"} /\ pc' = pc) =>
              /\ tape' = tape
              /\ curr' = curr
              /\ curr_state' = curr_state
              /\ command' = command
              /\ nsteps' = nsteps
         /\ (pc \in {"scan0", "scan"} /\ pc' # pc) =>
              /\ pc' = "loop"
              /\ command' \in {"next_step", "until_end"}
              /\ tape' = tape
              /\ curr' = curr
              /\ nsteps' = nsteps
       ]_vars

\* C16 witness: the first debug input was rejected with the prompt, and a rule
\* was applied only after a later valid command
C16_Witness ==
  /\ mode = "d"
  /\ Len(out) >= 3
  /\ out[3].kind = "prompt"
  /\ nsteps = 1
  /\ command = "next_step"

\* C17: an applied step is followed by the rendering of the new tape, the rule
\* and a wait for a command exactly when the command in force is single step;
\* otherwise it prints nothing and goes back to the loop test.  Once run to
\* completion is in force it stays in force, no command is read again, and the
\* only rendering printed is the final one at halt.
C17_StepRendersIffSingleStep ==
  [][ /\ Applied =>
           IF command = "next_step"
           THEN /\ pc' = "scan"
                /\ out' = out \o <<Event("answer", SelectSeq(CellsOf(tape'), NotBlank)),
                                   Event("rule", <<iter'.name, iter'.in_symbol,
                                                   iter'.out_symbol, iter'.move,
                                                   iter'.next_state>>)>>
           ELSE /\ pc' = "loop"
                /\ out' = out
      /\ (command = "until_end") =>
           /\ command' = "until_end"
           /\ pc' \notin {"scan0", "scan"}
           /\ (\E k \in (Len(out) + 1)..Len(out') : out'[k].kind = "answer") =>
                /\ pc = "loop"
                /\ curr_state.name = "halt"
                /\ pc' = "returned"
    ]_vars

\* C17 witness: a debug session stepped once with 'n', then got 'c', applied a
\* second rule without printing and halted: three renderings for two rules
C17_Witness ==
  /\ mode = "d"
  /\ command = "until_end"
  /\ pc = "returned"
  /\ ret = "false"
  /\ nsteps = 2
  /\ Len(Answers) = 3

\* the rules of the loaded table
TableRules == {states[i] : i \in 1..Len(states)}

\* C18: on the rules of every loaded table the comparator is a strict weak
\* ordering (it orders no rule before itself and no two rules each before the
\* other, and both it and the equivalence it induces are transitive), and the
\* table is a rearrangement of the source in which no rule stands after one
\* the comparator orders it before.
C18_StrictWeakOrdering ==
  Loaded =>
    /\ \A a \in TableRules : ~comparator(a, a)
    /\ \A a, b \in TableRules : comparator(a, b) => ~comparator(b, a)
    /\ \A a, b, c \in TableRules :
         (comparator(a, b) /\ comparator(b, c)) => comparator(a, c)
    /\ \A a, b, c \in TableRules :
         (/\ ~comparator(a, b) /\ ~comparator(b, a)
          /\ ~comparator(b, c) /\ ~comparator(c, b)) =>
           (~comparator(a, c) /\ ~comparator(c, a))
    /\ states \in Perms(source)
    /\ \A i, j \in 1..Len(states) : i < j => ~comparator(states[j], states[i])

\* the records of the source, whatever their order
SourceRules == {source[i] : i \in 1..Len(source)}

\* the source holds at most one record for each pair of state name and in_symbol
UniquePairs ==
  \A i, j \in 1..Len(source) :
    (source[i].name = source[j].name /\ source[i].in_symbol = source[j].in_symbol)
      => i = j

\* the records of the source that answer the current state and symbol: the one
\* with that in_symbol, or without one the wildcard record of the state
Answering ==
  LET exact == {r \in SourceRules :
                  r.name = curr_state.name /\ r.in_symbol = curr_state.in_symbol}
      wild == {r \in SourceRules : r.name = curr_state.name /\ r.in_symbol = "*"}
  IN IF exact # {} THEN exact ELSE wild

\* C19: with at most one record per pair of state name and in_symbol, what the
\* run does at a loop test short of "halt" depends on the set of records only,
\* not on their order in the source nor on the order the sort left: with no
\* answering record the run fails, otherwise there is exactly one and it is the
\* rule applied.
C19_RuleIndependentOfOrder ==
  [][ (pc = "loop" /\ curr_state.name # "halt" /\ UniquePairs) =>
        IF Answering = {}
        THEN pc' = "returned" /\ ret' = "true" /\ nsteps' = nsteps
        ELSE /\ Cardinality(Answering) = 1
             /\ iter' \in Answering
             /\ nsteps' = nsteps + 1 \/ pc' = "aborted"
    ]_vars

\* C19 witness: the source lists the wildcard record of state "0" before its
\* record for '1'; the run applied the record for '1' first and the wildcard
\* record second
C19_Witness ==
  /\ Len(source) = 2
  /\ UniquePairs
  /\ source[1].name = "0" /\ source[1].in_symbol = "*"
  /\ source[2].name = "0" /\ source[2].in_symbol = "1"
  /\ input = <<"1">>
  /\ nsteps = 2
  /\ iter = source[1]
  /\ curr_state.name = "halt"

\* C20: no materialized cell holds '*', after init and after any steps; a '*'
\* of the input is stored as the blank (stated for the streams without line
\* terminators, where the k-th character makes the k-th cell).
C20_NoWildcardOnTape ==
  /\ \A p \in DOMAIN tape : tape[p] # "*"
  /\ (pc = "run" /\ input # <<>> /\ \A k \in 1..Len(input) : input[k] # "\n") =>
       CellsOf(tape) = [k \in 1..Len(input) |-> IF input[k] = "*" THEN "_" ELSE input[k]]

\* C20 witness: the input "1*1" was loaded as '1', blank, '1', and a rule has
\* been applied since
C20_Witness ==
  /\ input = <<"1", "*", "1">>
  /\ nsteps >= 1
  /\ pc = "loop"
  /\ CellsOf(tape) = <<"1", "_", "1">>

====
